---------------------------- MODULE Spec2Model ----------------------------
(***************************************************************************)
(* Model of src/data/generate_questions.py: the script that expands the    *)
(* per-category pools of quiz items into a flat list of question records,  *)
(* pads the list from a filler pool up to 200 records, caps it at 200,     *)
(* writes the document to quiz_bank.json and prints a summary.             *)
(*                                                                         *)
(* Conventions of the model                                                *)
(*  - A catalog entry carries `text` (the first line of the prompt, in     *)
(*    ASCII), `has` (which of the two lexical markers "cout" and "int i"   *)
(*    the full snippet contains: the only thing the script ever reads from *)
(*    a prompt) and `explanation` (in ASCII).  Entries of the pools whose  *)
(*    tuples are longer carry `complexity`, `difficulty` and `lang` too.   *)
(*  - The complexity labels are written in ASCII: "O(n^2)" for O(n²),      *)
(*    "O(n^3)" for O(n³), "O(2^n)" for O(2ⁿ).                              *)
(*  - Python's None is the value None below.                               *)
(*  - The catalog of a run is the first nWorking entries of the script's   *)
(*    pools taken in the script's order and repeated from the start when   *)
(*    they run out, so that runs with fewer and with more working records  *)
(*    than the script's own 97 are covered; the filler pool of a run is    *)
(*    a prefix of the script's easy_fillers, the empty prefix included.    *)
(***************************************************************************)
EXTENDS Integers, Sequences, FiniteSets

VARIABLES
  nWorking,     \* number of records the catalog of this run expands to
  filler_pool,  \* the filler pool of this run (easy_fillers in the script)
  questions,    \* the list `questions`
  question_id,  \* the counter `question_id`
  pos,          \* number of catalog entries the expansion loops have consumed
  pc,           \* position of the script
  output,       \* the dict `output`
  file,         \* quiz_bank.json on disk
  before,       \* quiz_bank.json as it was when the current run started
  summary,      \* the counts printed at the end
  run,          \* 1 for the first run of the script, 2 for a second one
  defect        \* the malformed entry of the catalog of this run, if any

vars ==
  <<nWorking, filler_pool, questions, question_id, pos, pc, output, file,
    before, summary, run, defect>>

None ==
  "None"

(***************************************************************************)
(* The catalog: the pool literals of the script.                           *)
(***************************************************************************)
o1_code_snippets ==
  <<
    [text |-> "def get_first(arr): ...",
     has |-> {},
     explanation |-> "Array access is O(1) - direct index lookup."],
    [text |-> "def swap(a, b): ...",
     has |-> {},
     explanation |-> "Variable swaps are O(1) - constant operations."],
    [text |-> "def check_even(n): ...",
     has |-> {},
     explanation |-> "Modulo and comparison are O(1) operations."],
    [text |-> "x = dict[key]",
     has |-> {},
     explanation |-> "Hash table lookup averages O(1)."],
    [text |-> "result = a + b * c",
     has |-> {},
     explanation |-> "Arithmetic operations are O(1)."]
  >>

o1_algorithms ==
  <<
    [text |-> "Accessing an array element by index",
     has |-> {},
     explanation |-> "Direct memory access is O(1)."],
    [text |-> "Hash table lookup (average case)",
     has |-> {},
     explanation |-> "Hash computation and bucket access is O(1) average."],
    [text |-> "Stack push operation",
     has |-> {},
     explanation |-> "Adding to top of stack is O(1)."],
    [text |-> "Queue dequeue operation",
     has |-> {},
     explanation |-> "Removing from front of queue is O(1)."],
    [text |-> "Checking if number is even",
     has |-> {},
     explanation |-> "Single modulo operation is O(1)."]
  >>

ologn_code_snippets ==
  <<
    [text |-> "def binary_search(arr, target): ...",
     has |-> {},
     explanation |-> "Binary search halves search space each iteration -> O(log n)."],
    [text |-> "def count_bits(n): ...",
     has |-> {},
     explanation |-> "Dividing by 2 each iteration -> O(log n)."],
    [text |-> "def power_of_two(n): ...",
     has |-> {},
     explanation |-> "Multiplying by 2 each iteration -> O(log n)."],
    [text |-> "for(int i = 1; i <= n; i *= 2) { ...",
     has |-> {"cout", "int i"},
     explanation |-> "Loop with i *= 2 runs log2(n) times."],
    [text |-> "while(n > 1) { ...",
     has |-> {},
     explanation |-> "Division by 2 pattern -> O(log n)."]
  >>

ologn_algorithms ==
  <<
    [text |-> "Binary Search",
     has |-> {},
     explanation |-> "Halves search space each step -> O(log n)."],
    [text |-> "Balanced BST Search",
     has |-> {},
     explanation |-> "Height of balanced tree is O(log n)."],
    [text |-> "Finding height of binary tree",
     has |-> {},
     explanation |-> "Traverses one path from root to leaf -> O(log n) for balanced."],
    [text |-> "Skip List Search",
     has |-> {},
     explanation |-> "Probabilistically balanced structure -> O(log n) average."],
    [text |-> "Interpolation Search (average)",
     has |-> {},
     explanation |-> "Improves on binary search for uniform data -> O(log log n) average, but O(log n) typical."]
  >>

on_code_snippets ==
  <<
    [text |-> "def sum_array(arr): ...",
     has |-> {},
     explanation |-> "Single loop through n elements -> O(n)."],
    [text |-> "def find_max(arr): ...",
     has |-> {},
     explanation |-> "One pass through array -> O(n)."],
    [text |-> "def linear_search(arr, target): ...",
     has |-> {},
     explanation |-> "Worst case checks all n elements -> O(n)."],
    [text |-> "for i in range(n): ...",
     has |-> {},
     explanation |-> "Simple loop from 0 to n -> O(n)."],
    [text |-> "def reverse_string(s): ...",
     has |-> {},
     explanation |-> "String reversal requires touching all n characters -> O(n)."],
    [text |-> "def count_vowels(s): ...",
     has |-> {},
     explanation |-> "Single pass through string -> O(n)."],
    [text |-> "arr.append(x) ...",
     has |-> {},
     explanation |-> "Two sequential loops: O(1) + O(n) = O(n)."]
  >>

on_algorithms ==
  <<
    [text |-> "Linear Search",
     has |-> {},
     explanation |-> "May need to check all n elements."],
    [text |-> "Finding minimum in unsorted array",
     has |-> {},
     explanation |-> "Must examine all n elements."],
    [text |-> "Counting elements in array",
     has |-> {},
     explanation |-> "Single traversal -> O(n)."],
    [text |-> "Array traversal",
     has |-> {},
     explanation |-> "Visiting each element once -> O(n)."],
    [text |-> "Linked list traversal",
     has |-> {},
     explanation |-> "Following n pointers -> O(n)."]
  >>

onlogn_code_snippets ==
  <<
    [text |-> "def merge_sort(arr): ...",
     has |-> {},
     explanation |-> "Divides in half (log n levels) and merges (n work per level) -> O(n log n)."],
    [text |-> "def quick_sort(arr): ...",
     has |-> {},
     explanation |-> "Average case partitions log n times with n work each -> O(n log n)."],
    [text |-> "arr.sort()",
     has |-> {},
     explanation |-> "Python's Timsort is O(n log n)."],
    [text |-> "sorted_arr = sorted(arr)",
     has |-> {},
     explanation |-> "Built-in sorted() uses O(n log n) algorithm."]
  >>

onlogn_algorithms ==
  <<
    [text |-> "Merge Sort",
     has |-> {},
     explanation |-> "Divide-and-conquer: log n levels, n work per level."],
    [text |-> "Quick Sort (average case)",
     has |-> {},
     explanation |-> "Partitioning is O(n), recursion depth is O(log n) on average."],
    [text |-> "Heap Sort",
     has |-> {},
     explanation |-> "Build heap O(n) + extract n times with O(log n) heapify."],
    [text |-> "Timsort (Python's sort)",
     has |-> {},
     explanation |-> "Hybrid merge/insertion sort -> O(n log n)."],
    [text |-> "Sorting using comparison-based algorithm",
     has |-> {},
     explanation |-> "Lower bound for comparison sorts is O(n log n)."]
  >>

on2_code_snippets ==
  <<
    [text |-> "def bubble_sort(arr): ...",
     has |-> {},
     explanation |-> "Nested loops: outer n times, inner n times -> O(n^2)."],
    [text |-> "def selection_sort(arr): ...",
     has |-> {},
     explanation |-> "For each element, scan remaining array -> O(n^2)."],
    [text |-> "def print_pairs(arr): ...",
     has |-> {},
     explanation |-> "All pairs of n elements -> n x n = O(n^2)."],
    [text |-> "for(int i = 0; i < n; i++) { ...",
     has |-> {"int i"},
     explanation |-> "Filling nxn matrix -> O(n^2)."],
    [text |-> "def has_duplicate(arr): ...",
     has |-> {},
     explanation |-> "Comparing each pair: n(n-1)/2 comparisons -> O(n^2)."]
  >>

on2_algorithms ==
  <<
    [text |-> "Bubble Sort",
     has |-> {},
     explanation |-> "Compares adjacent elements n times -> O(n^2)."],
    [text |-> "Selection Sort",
     has |-> {},
     explanation |-> "Finds minimum n times, scanning n elements -> O(n^2)."],
    [text |-> "Insertion Sort (worst case)",
     has |-> {},
     explanation |-> "May shift up to n elements for each of n inserts -> O(n^2)."],
    [text |-> "Checking all pairs in array",
     has |-> {},
     explanation |-> "n choose 2 pairs = n(n-1)/2 -> O(n^2)."],
    [text |-> "Naive string matching",
     has |-> {},
     explanation |-> "For m-length pattern in n-length text, worst case O(mn) ~ O(n^2) when m~n."]
  >>

on3_code_snippets ==
  <<
    [text |-> "for i in range(n): ...",
     has |-> {},
     explanation |-> "Three nested loops, each running n times -> nxnxn = O(n^3)."],
    [text |-> "def matrix_multiply(A, B): ...",
     has |-> {},
     explanation |-> "Standard matrix multiplication: three nested loops -> O(n^3)."],
    [text |-> "def all_triplets(arr): ...",
     has |-> {},
     explanation |-> "Generating all triplets from n elements -> n^3 combinations."]
  >>

on3_algorithms ==
  <<
    [text |-> "Matrix Multiplication (naive)",
     has |-> {},
     explanation |-> "Three nested loops for nxn matrices -> O(n^3)."],
    [text |-> "Floyd-Warshall Algorithm",
     has |-> {},
     explanation |-> "All-pairs shortest path with three nested loops -> O(n^3)."],
    [text |-> "Finding all triplets in array",
     has |-> {},
     explanation |-> "Checking all combinations of 3 elements -> O(n^3)."]
  >>

o2n_code_snippets ==
  <<
    [text |-> "def fibonacci(n): ...",
     has |-> {},
     explanation |-> "Each call makes 2 recursive calls -> binary tree of calls -> O(2^n)."],
    [text |-> "def power_set(arr): ...",
     has |-> {},
     explanation |-> "Generates all 2^n subsets -> O(2^n)."],
    [text |-> "def solve_n_queens(n, row=0): ...",
     has |-> {},
     explanation |-> "Tries all possible placements -> exponential backtracking."]
  >>

o2n_algorithms ==
  <<
    [text |-> "Fibonacci (naive recursive)",
     has |-> {},
     explanation |-> "T(n) = T(n-1) + T(n-2) -> exponential growth."],
    [text |-> "Tower of Hanoi",
     has |-> {},
     explanation |-> "T(n) = 2T(n-1) + 1 -> O(2^n)."],
    [text |-> "Generating all subsets",
     has |-> {},
     explanation |-> "2^n possible subsets of n elements."],
    [text |-> "Traveling Salesman (brute force)",
     has |-> {},
     explanation |-> "Tries all permutations -> factorial or exponential."],
    [text |-> "Subset Sum (brute force)",
     has |-> {},
     explanation |-> "Checks all 2^n subsets."]
  >>

ofact_code_snippets ==
  <<
    [text |-> "def permutations(arr): ...",
     has |-> {},
     explanation |-> "Generates all n! permutations."],
    [text |-> "def traveling_salesman_brute(cities): ...",
     has |-> {},
     explanation |-> "Tries all n! orderings of cities."]
  >>

ofact_algorithms ==
  <<
    [text |-> "Generating all permutations",
     has |-> {},
     explanation |-> "n! permutations of n elements."],
    [text |-> "Traveling Salesman (exact brute force)",
     has |-> {},
     explanation |-> "Checks all n! routes."],
    [text |-> "Bogosort",
     has |-> {},
     explanation |-> "Randomly shuffles until sorted -> O(n!) average."]
  >>

cpp_questions ==
  <<
    [text |-> "vector<int> v; ...",
     has |-> {"int i"},
     explanation |-> "Single loop with push_back (amortized O(1)) -> O(n).",
     complexity |-> "O(n)",
     difficulty |-> "easy"],
    [text |-> "int sum = 0; ...",
     has |-> {"int i"},
     explanation |-> "Single loop adding elements -> O(n).",
     complexity |-> "O(n)",
     difficulty |-> "easy"],
    [text |-> "for(int i = 0; i < n; i++) { ...",
     has |-> {"int i"},
     explanation |-> "Nested loop with inner starting at i -> n + (n-1) + ... + 1 = O(n^2).",
     complexity |-> "O(n^2)",
     difficulty |-> "medium"],
    [text |-> "priority_queue<int> pq; ...",
     has |-> {"int i"},
     explanation |-> "n insertions into heap, each O(log n) -> O(n log n).",
     complexity |-> "O(n log n)",
     difficulty |-> "medium"],
    [text |-> "map<int, int> m; ...",
     has |-> {},
     explanation |-> "Map insertion (balanced BST) is O(log n).",
     complexity |-> "O(log n)",
     difficulty |-> "easy"],
    [text |-> "unordered_map<int, int> um; ...",
     has |-> {},
     explanation |-> "Hash map insertion averages O(1).",
     complexity |-> "O(1)",
     difficulty |-> "easy"]
  >>

python_advanced ==
  <<
    [text |-> "def nested_sum(matrix): ...",
     has |-> {},
     explanation |-> "Two nested iterations over nxn matrix -> O(n^2).",
     complexity |-> "O(n^2)",
     difficulty |-> "medium"],
    [text |-> "def list_comp(n): ...",
     has |-> {},
     explanation |-> "List comprehension with single loop -> O(n).",
     complexity |-> "O(n)",
     difficulty |-> "easy"],
    [text |-> "def dict_comp(n): ...",
     has |-> {},
     explanation |-> "Dictionary comprehension with n elements -> O(n).",
     complexity |-> "O(n)",
     difficulty |-> "easy"],
    [text |-> "arr = sorted(arr, reverse=True)",
     has |-> {},
     explanation |-> "Sorting is O(n log n) regardless of reverse flag.",
     complexity |-> "O(n log n)",
     difficulty |-> "easy"],
    [text |-> "result = list(set(arr))",
     has |-> {},
     explanation |-> "Converting to set is O(n), back to list is O(n) -> O(n).",
     complexity |-> "O(n)",
     difficulty |-> "easy"],
    [text |-> "max_val = max(arr)",
     has |-> {},
     explanation |-> "Built-in max scans all elements once -> O(n).",
     complexity |-> "O(n)",
     difficulty |-> "easy"]
  >>

more_algorithms ==
  <<
    [text |-> "DFS (Depth-First Search) on graph",
     has |-> {},
     explanation |-> "Visits each vertex and edge once -> O(V + E).",
     complexity |-> "O(n)",
     difficulty |-> "medium"],
    [text |-> "BFS (Breadth-First Search) on graph",
     has |-> {},
     explanation |-> "Visits each vertex and edge once -> O(V + E).",
     complexity |-> "O(n)",
     difficulty |-> "medium"],
    [text |-> "Dijkstra's Algorithm (binary heap)",
     has |-> {},
     explanation |-> "Each vertex dequeued once, edges relaxed -> O((V+E) log V).",
     complexity |-> "O(n log n)",
     difficulty |-> "hard"],
    [text |-> "Prim's Algorithm (binary heap)",
     has |-> {},
     explanation |-> "Similar to Dijkstra -> O((V+E) log V).",
     complexity |-> "O(n log n)",
     difficulty |-> "hard"],
    [text |-> "Kruskal's Algorithm",
     has |-> {},
     explanation |-> "Sort edges O(E log E), union-find operations -> O(E log E).",
     complexity |-> "O(n log n)",
     difficulty |-> "hard"],
    [text |-> "Counting Sort",
     has |-> {},
     explanation |-> "Non-comparison sort with O(n+k) where k is range -> O(n) when k=O(n).",
     complexity |-> "O(n)",
     difficulty |-> "medium"],
    [text |-> "Radix Sort",
     has |-> {},
     explanation |-> "Sorts by digits, d passes of O(n+k) -> O(dn) = O(n) when d is constant.",
     complexity |-> "O(n)",
     difficulty |-> "medium"],
    [text |-> "Bucket Sort (average)",
     has |-> {},
     explanation |-> "Distributes into buckets and sorts -> O(n) average.",
     complexity |-> "O(n)",
     difficulty |-> "medium"],
    [text |-> "KMP String Matching",
     has |-> {},
     explanation |-> "Preprocessing O(m) + matching O(n) -> O(m+n) = O(n).",
     complexity |-> "O(n)",
     difficulty |-> "hard"],
    [text |-> "Rabin-Karp Algorithm",
     has |-> {},
     explanation |-> "Rolling hash for pattern matching -> O(n+m) average.",
     complexity |-> "O(n)",
     difficulty |-> "medium"]
  >>

mixed_questions ==
  <<
    [text |-> "def mystery1(n): ...",
     has |-> {},
     explanation |-> "Loop with i *= 2 -> O(log n).",
     complexity |-> "O(log n)",
     difficulty |-> "medium",
     lang |-> "python"],
    [text |-> "def mystery2(n): ...",
     has |-> {},
     explanation |-> "Outer loop n times, inner loop log i times -> O(n log n).",
     complexity |-> "O(n log n)",
     difficulty |-> "hard",
     lang |-> "python"],
    [text |-> "for(int i = 0; i < n; i++) { ...",
     has |-> {"cout", "int i"},
     explanation |-> "Outer n times, inner i times -> 0+1+2+...+(n-1) = O(n^2).",
     complexity |-> "O(n^2)",
     difficulty |-> "medium",
     lang |-> "cpp"],
    [text |-> "def factorial(n): ...",
     has |-> {},
     explanation |-> "Single recursive call -> O(n).",
     complexity |-> "O(n)",
     difficulty |-> "easy",
     lang |-> "python"],
    [text |-> "def tower_hanoi(n): ...",
     has |-> {},
     explanation |-> "T(n) = 2T(n-1) + 1 -> O(2^n).",
     complexity |-> "O(2^n)",
     difficulty |-> "hard",
     lang |-> "python"]
  >>

easy_fillers ==
  <<
    [text |-> "return len(arr)",
     has |-> {},
     explanation |-> "Getting length is O(1).",
     complexity |-> "O(1)",
     difficulty |-> "easy",
     lang |-> "python"],
    [text |-> "x = arr[index]",
     has |-> {},
     explanation |-> "Array indexing is O(1).",
     complexity |-> "O(1)",
     difficulty |-> "easy",
     lang |-> "python"],
    [text |-> "arr.clear()",
     has |-> {},
     explanation |-> "Clearing list is O(n).",
     complexity |-> "O(n)",
     difficulty |-> "easy",
     lang |-> "python"],
    [text |-> "'substring' in string",
     has |-> {},
     explanation |-> "String search is O(n*m) worst case -> O(n) typically.",
     complexity |-> "O(n)",
     difficulty |-> "easy",
     lang |-> "python"],
    [text |-> "for i in range(n): ...",
     has |-> {},
     explanation |-> "n append operations (amortized O(1) each) -> O(n).",
     complexity |-> "O(n)",
     difficulty |-> "easy",
     lang |-> "python"]
  >>

(***************************************************************************)
(* Bounds of the model.                                                    *)
(***************************************************************************)
\* Largest number of working records a catalog supplies.
MaxWorking ==
  210

\* Largest number of records a failing json.dump has written completely.
MaxWritten ==
  2

(***************************************************************************)
(* Program constants.                                                      *)
(***************************************************************************)
\* while len(questions) < 200
TARGET_SIZE ==
  200

\* questions[:200]
CAP_SIZE ==
  200

(***************************************************************************)
(* The expansion loops, in the order of the script.  A field holds the     *)
(* literal the loop writes, or "item" when the loop takes the value from   *)
(* the pool entry, "infer" when it derives the language from the snippet,  *)
(* "mod2"/"mod3" when it derives the difficulty from question_id.          *)
(***************************************************************************)
Loops ==
  <<
    [pool |-> o1_code_snippets, type |-> "code", language |-> "python",
     complexity |-> "O(1)", difficulty |-> "easy"],
    [pool |-> o1_algorithms, type |-> "name", language |-> None,
     complexity |-> "O(1)", difficulty |-> "easy"],
    [pool |-> ologn_code_snippets, type |-> "code", language |-> "infer",
     complexity |-> "O(log n)", difficulty |-> "mod2"],
    [pool |-> ologn_algorithms, type |-> "name", language |-> None,
     complexity |-> "O(log n)", difficulty |-> "easy"],
    [pool |-> on_code_snippets, type |-> "code", language |-> "python",
     complexity |-> "O(n)", difficulty |-> "easy"],
    [pool |-> on_algorithms, type |-> "name", language |-> None,
     complexity |-> "O(n)", difficulty |-> "easy"],
    [pool |-> onlogn_code_snippets, type |-> "code", language |-> "python",
     complexity |-> "O(n log n)", difficulty |-> "medium"],
    [pool |-> onlogn_algorithms, type |-> "name", language |-> None,
     complexity |-> "O(n log n)", difficulty |-> "medium"],
    [pool |-> on2_code_snippets, type |-> "code", language |-> "infer",
     complexity |-> "O(n^2)", difficulty |-> "mod3"],
    [pool |-> on2_algorithms, type |-> "name", language |-> None,
     complexity |-> "O(n^2)", difficulty |-> "easy"],
    [pool |-> on3_code_snippets, type |-> "code", language |-> "python",
     complexity |-> "O(n^3)", difficulty |-> "medium"],
    [pool |-> on3_algorithms, type |-> "name", language |-> None,
     complexity |-> "O(n^3)", difficulty |-> "medium"],
    [pool |-> o2n_code_snippets, type |-> "code", language |-> "python",
     complexity |-> "O(2^n)", difficulty |-> "hard"],
    [pool |-> o2n_algorithms, type |-> "name", language |-> None,
     complexity |-> "O(2^n)", difficulty |-> "hard"],
    [pool |-> ofact_code_snippets, type |-> "code", language |-> "python",
     complexity |-> "O(n!)", difficulty |-> "hard"],
    [pool |-> ofact_algorithms, type |-> "name", language |-> None,
     complexity |-> "O(n!)", difficulty |-> "hard"],
    [pool |-> cpp_questions, type |-> "code", language |-> "cpp",
     complexity |-> "item", difficulty |-> "item"],
    [pool |-> python_advanced, type |-> "code", language |-> "python",
     complexity |-> "item", difficulty |-> "item"],
    [pool |-> more_algorithms, type |-> "name", language |-> None,
     complexity |-> "item", difficulty |-> "item"],
    [pool |-> mixed_questions, type |-> "code", language |-> "item",
     complexity |-> "item", difficulty |-> "item"]
  >>

\* The entries of loops i, i+1, ... in the order the script reaches them.
RECURSIVE EntriesFrom(_)
EntriesFrom(i) ==
  IF i > Len(Loops)
    THEN <<>>
    ELSE [j \in 1..Len(Loops[i].pool) |-> [loop |-> i, item |-> Loops[i].pool[j]]]
           \o EntriesFrom(i + 1)

Entries ==
  EntriesFrom(1)

\* The k-th entry of a catalog: the script's entries, repeated when k
\* exceeds their number.
CatalogEntry(k) ==
  Entries[((k - 1) % Len(Entries)) + 1]

\* InferLang with no default tag: a snippet without a marker gets None.
InferLangOrNone(item) ==
  IF "cout" \in item.has \/ "int i" \in item.has THEN "cpp" ELSE None

\* lang = "cpp" if "cout" in code or "int i" in code else "python"
InferLang(item) ==
  IF "cout" \in item.has \/ "int i" \in item.has THEN "cpp" ELSE "python"

\* The "language" value a loop writes.
Language(loop, item) ==
  CASE loop.language = "infer" -> InferLang(item)
    [] loop.language = "item" -> item.lang
    [] OTHER -> loop.language

\* The "correct_complexity" value a loop writes.
Complexity(loop, item) ==
  IF loop.complexity = "item" THEN item.complexity ELSE loop.complexity

\* Difficulty with the modulus taken of the 0-based index qid - 1, the
\* length of the list, instead of the counter.
DifficultyByIndex(loop, item, qid) ==
  CASE loop.difficulty = "mod2" -> (IF (qid - 1) % 2 = 0 THEN "easy" ELSE "medium")
    [] loop.difficulty = "mod3" -> (IF (qid - 1) % 3 = 0 THEN "easy" ELSE "medium")
    [] loop.difficulty = "item" -> item.difficulty
    [] OTHER -> loop.difficulty

\* Difficulty with a tier outside the three in the modulus rule.
DifficultyUnlisted(loop, item, qid) ==
  CASE loop.difficulty = "mod2" -> (IF qid % 2 = 0 THEN "easy" ELSE "medium")
    [] loop.difficulty = "mod3" -> (IF qid % 3 = 0 THEN "easy" ELSE "intermediate")
    [] loop.difficulty = "item" -> item.difficulty
    [] OTHER -> loop.difficulty

\* The "difficulty" value a loop writes when question_id = qid.
Difficulty(loop, item, qid) ==
  CASE loop.difficulty = "mod2" -> (IF qid % 2 = 0 THEN "easy" ELSE "medium")
    [] loop.difficulty = "mod3" -> (IF qid % 3 = 0 THEN "easy" ELSE "medium")
    [] loop.difficulty = "item" -> item.difficulty
    [] OTHER -> loop.difficulty

\* Question with the id taken from len(questions) = qid - 1.
QuestionIdFromLength(loop, item, qid) ==
  [id |-> qid - 1,
   type |-> loop.type,
   language |-> Language(loop, item),
   prompt |-> item.text,
   correct_complexity |-> Complexity(loop, item),
   explanation |-> item.explanation,
   difficulty |-> Difficulty(loop, item, qid),
   highlight_spans |-> <<>>]

\* The dict a loop appends for one pool entry.
Question(loop, item, qid) ==
  [id |-> qid,
   type |-> loop.type,
   language |-> Language(loop, item),
   prompt |-> item.text,
   correct_complexity |-> Complexity(loop, item),
   explanation |-> item.explanation,
   difficulty |-> Difficulty(loop, item, qid),
   highlight_spans |-> <<>>]

\* FillerIndex taken from the counter question_id = count + 1 instead of
\* the length of the list.
FillerIndexById(count, size) ==
  (count + 1) % size

\* len(questions) % len(easy_fillers), the 0-based index of the filler the
\* padding loop takes when the list holds `count` records.
FillerIndex(count, size) ==
  count % size

\* The dict the padding loop appends for one filler entry.
FillerQuestion(item, qid) ==
  [id |-> qid,
   type |-> "code",
   language |-> item.lang,
   prompt |-> item.text,
   correct_complexity |-> item.complexity,
   explanation |-> item.explanation,
   difficulty |-> item.difficulty,
   highlight_spans |-> <<>>]

\* Cap that cuts nothing.
CapMissing(qs) ==
  qs

\* Cap that keeps the latest records, questions[-200:].
CapLatest(qs) ==
  SubSeq(qs, IF Len(qs) < CAP_SIZE THEN 1 ELSE Len(qs) - CAP_SIZE + 1, Len(qs))

\* questions[:200]
Cap(qs) ==
  SubSeq(qs, 1, IF Len(qs) < CAP_SIZE THEN Len(qs) ELSE CAP_SIZE)

\* sum(1 for q in qs if q[field] == value)
Count(qs, field, value) ==
  Cardinality({i \in 1..Len(qs) : qs[i][field] = value})

\* Breakdown taken from the working list instead of output['questions'].
BreakdownOfWorking(out, qs) ==
  [total |-> Len(qs),
   easy |-> Count(qs, "difficulty", "easy"),
   medium |-> Count(qs, "difficulty", "medium"),
   hard |-> Count(qs, "difficulty", "hard"),
   code |-> Count(qs, "type", "code"),
   name |-> Count(qs, "type", "name")]

\* The numbers the final prints show, taken from output['questions'].
Breakdown(out, qs) ==
  [total |-> Len(out.questions),
   easy |-> Count(out.questions, "difficulty", "easy"),
   medium |-> Count(out.questions, "difficulty", "medium"),
   hard |-> Count(out.questions, "difficulty", "hard"),
   code |-> Count(out.questions, "type", "code"),
   name |-> Count(out.questions, "type", "name")]

(***************************************************************************)
(* Inputs of a run.                                                        *)
(***************************************************************************)
WorkingSizes ==
  0..MaxWorking

\* The sizes of the filler pools tried: the empty pool, a single entry, a
\* size that does not divide 200, and the script's own pool.
FillerSizes ==
  {0, 1, 3, Len(easy_fillers)}

FillerPools ==
  {SubSeq(easy_fillers, 1, n) : n \in FillerSizes}

\* No entry of the catalog is malformed.
NoDefect ==
  [at |-> 0, field |-> "none"]

\* What a malformed entry holds in a field: an empty prompt, an empty
\* explanation, a complexity label or a difficulty outside the closed sets.
BadValue(field) ==
  CASE field = "text" -> ""
    [] field = "explanation" -> ""
    [] field = "complexity" -> "O(n^4)"
    [] field = "difficulty" -> "expert"

\* One malformed field of one entry of the script's pools: any entry for
\* the prompt and the explanation, and the entries that carry their own
\* complexity and difficulty for these two.
Defects ==
  {d \in [at : 1..Len(Entries),
          field : {"text", "explanation", "complexity", "difficulty"}] :
     d.field \in DOMAIN Entries[d.at].item}

\* The k-th entry as the expansion loop reads it from a catalog with the
\* defect d.
ReadEntry(k, d) ==
  IF d.at = k
    THEN [CatalogEntry(k) EXCEPT !.item[d.field] = BadValue(d.field)]
    ELSE CatalogEntry(k)

NoFile ==
  [exists |-> FALSE, questions |-> <<>>, complete |-> FALSE]

NoSummary ==
  [total |-> 0, easy |-> 0, medium |-> 0, hard |-> 0, code |-> 0, name |-> 0]

\* questions = [] ; question_id = 1
Start ==
  /\ questions = <<>>
  /\ question_id = 1
  /\ pos = 0
  /\ pc = "expand"
  /\ output = [questions |-> <<>>]
  /\ summary = NoSummary

Init ==
  /\ nWorking \in WorkingSizes
  /\ filler_pool \in FillerPools
  /\ defect = NoDefect
  /\ Start
  /\ file = NoFile
  /\ before = NoFile
  /\ run = 1

\* The script's own catalog with one entry malformed in one field.
InitDefective ==
  /\ nWorking = Len(Entries)
  /\ filler_pool \in FillerPools
  /\ defect \in Defects
  /\ Start
  /\ file = NoFile
  /\ before = NoFile
  /\ run = 1

(***************************************************************************)
(* The steps of the script.                                                *)
(***************************************************************************)
\* One iteration of an expansion loop: append the record, bump the counter.
Expand ==
  /\ pc = "expand"
  /\ pos < nWorking
  /\ LET e == ReadEntry(pos + 1, defect)
     IN  questions' = Append(questions, Question(Loops[e.loop], e.item, question_id))
  /\ question_id' = question_id + 1
  /\ pos' = pos + 1
  /\ UNCHANGED <<defect, nWorking, filler_pool, pc, output, file, before, summary, run>>

\* The last expansion loop has ended: the script reaches the padding loop.
EndExpand ==
  /\ pc = "expand"
  /\ pos = nWorking
  /\ pc' = "pad"
  /\ UNCHANGED <<defect, nWorking, filler_pool, questions, question_id, pos, output,
                 file, before, summary, run>>

\* Pad without question_id += 1.
PadKeepId ==
  /\ pc = "pad"
  /\ Len(questions) < TARGET_SIZE
  /\ Len(filler_pool) > 0
  /\ LET item == filler_pool[FillerIndex(Len(questions), Len(filler_pool)) + 1]
     IN  questions' = Append(questions, FillerQuestion(item, question_id))
  /\ UNCHANGED <<defect, nWorking, filler_pool, question_id, pos, pc, output, file,
                 before, summary, run>>

\* One iteration of the padding loop with a non-empty pool.
Pad ==
  /\ pc = "pad"
  /\ Len(questions) < TARGET_SIZE
  /\ Len(filler_pool) > 0
  /\ LET item == filler_pool[FillerIndex(Len(questions), Len(filler_pool)) + 1]
     IN  questions' = Append(questions, FillerQuestion(item, question_id))
  /\ question_id' = question_id + 1
  /\ UNCHANGED <<defect, nWorking, filler_pool, pos, pc, output, file, before, summary, run>>

\* PadZeroDivision replaced by a guard that leaves the loop when the pool
\* is empty, so that the script goes on to write a short document.
PadEmptyBreaks ==
  /\ pc = "pad"
  /\ Len(questions) < TARGET_SIZE
  /\ Len(filler_pool) = 0
  /\ output' = [questions |-> Cap(questions)]
  /\ pc' = "open"
  /\ UNCHANGED <<defect, nWorking, filler_pool, questions, question_id, pos, file,
                 before, summary, run>>

\* One iteration of the padding loop with an empty pool: the modulus by
\* len(easy_fillers) = 0 raises ZeroDivisionError, which nothing catches.
PadZeroDivision ==
  /\ pc = "pad"
  /\ Len(questions) < TARGET_SIZE
  /\ Len(filler_pool) = 0
  /\ pc' = "error"
  /\ UNCHANGED <<defect, nWorking, filler_pool, questions, question_id, pos, output,
                 file, before, summary, run>>

\* The padding loop ends; output = {"questions": questions[:200]}.
Save ==
  /\ pc = "pad"
  /\ ~(Len(questions) < TARGET_SIZE)
  /\ output' = [questions |-> Cap(questions)]
  /\ pc' = "open"
  /\ UNCHANGED <<defect, nWorking, filler_pool, questions, question_id, pos, file,
                 before, summary, run>>

\* open('quiz_bank.json', 'w') succeeds: the file is created or truncated.
OpenOk ==
  /\ pc = "open"
  /\ file' = [exists |-> TRUE, questions |-> <<>>, complete |-> FALSE]
  /\ pc' = "dump"
  /\ UNCHANGED <<defect, nWorking, filler_pool, questions, question_id, pos, output,
                 before, summary, run>>

\* open('quiz_bank.json', 'w') raises OSError: the file is not touched.
OpenFail ==
  /\ pc = "open"
  /\ pc' = "error"
  /\ UNCHANGED <<defect, nWorking, filler_pool, questions, question_id, pos, output,
                 file, before, summary, run>>

\* json.dump and the close of the with block succeed.
DumpOk ==
  /\ pc = "dump"
  /\ file' = [exists |-> TRUE, questions |-> output.questions, complete |-> TRUE]
  /\ pc' = "summary"
  /\ UNCHANGED <<defect, nWorking, filler_pool, questions, question_id, pos, output,
                 before, summary, run>>

\* json.dump or the close raises OSError after k records reached the file.
DumpFail ==
  /\ pc = "dump"
  /\ \E k \in 0..MaxWritten :
       /\ k < Len(output.questions)
       /\ file' = [exists |-> TRUE, questions |-> SubSeq(output.questions, 1, k),
                   complete |-> FALSE]
  /\ pc' = "error"
  /\ UNCHANGED <<defect, nWorking, filler_pool, questions, question_id, pos, output,
                 before, summary, run>>

\* The final prints.
Summary ==
  /\ pc = "summary"
  /\ summary' = Breakdown(output, questions)
  /\ pc' = "done"
  /\ UNCHANGED <<defect, nWorking, filler_pool, questions, question_id, pos, output,
                 file, before, run>>

\* Rerun in which the counter survives from the first run.
RerunKeepCounter ==
  /\ run = 1
  /\ pc = "done"
  /\ run' = 2
  /\ before' = file
  /\ questions' = <<>>
  /\ pos' = 0
  /\ pc' = "expand"
  /\ output' = [questions |-> <<>>]
  /\ summary' = NoSummary
  /\ UNCHANGED <<defect, nWorking, filler_pool, file, question_id>>

\* The script is started again on the same catalog after a run that
\* completed: a new process, whose module-level statements run from the top,
\* and the file the first run left on disk.
Rerun ==
  /\ run = 1
  /\ pc = "done"
  /\ run' = 2
  /\ before' = file
  /\ questions' = <<>>
  /\ question_id' = 1
  /\ pos' = 0
  /\ pc' = "expand"
  /\ output' = [questions |-> <<>>]
  /\ summary' = NoSummary
  /\ UNCHANGED <<defect, nWorking, filler_pool, file>>

Next ==
  \/ Expand
  \/ EndExpand
  \/ Pad
  \/ PadZeroDivision
  \/ Save
  \/ OpenOk
  \/ OpenFail
  \/ DumpOk
  \/ DumpFail
  \/ Summary

NextTwice ==
  \/ Next
  \/ Rerun

Spec ==
  Init /\ [][Next]_vars

SpecTwice ==
  Init /\ [][NextTwice]_vars

SpecDefective ==
  InitDefective /\ [][Next]_vars

(***************************************************************************)
(* Properties.                                                             *)
(***************************************************************************)
\* output has been built: the script is at or past the open of the file.
OutputBuilt ==
  pc \in {"open", "dump", "summary", "done"}

\* q carries the content of the filler entry item.
FromFiller(q, item) ==
  /\ q.type = "code"
  /\ q.language = item.lang
  /\ q.prompt = item.text
  /\ q.correct_complexity = item.complexity
  /\ q.explanation = item.explanation
  /\ q.difficulty = item.difficulty
  /\ q.highlight_spans = <<>>

\* C1: with a non-empty filler pool the emitted corpus holds exactly 200
\* records, whatever the number of working records: the list was padded to
\* 200 when there were fewer, cut to 200 when there were more, and is
\* emitted as it stands when there were exactly 200.
ExactSize ==
  (OutputBuilt /\ Len(filler_pool) > 0) =>
    /\ Len(output.questions) = 200
    /\ nWorking < 200 => (Len(questions) = 200 /\ output.questions = questions)
    /\ nWorking > 200 => (Len(questions) = nWorking /\ output.questions # questions)
    /\ nWorking = 200 => (Len(questions) = nWorking /\ output.questions = questions)

ExactSizeWitness ==
  /\ pc = "open"
  /\ Len(filler_pool) > 0
  /\ nWorking < 200
  /\ Len(questions) > nWorking

\* C2: in the emitted corpus the record at position i has id i, so the ids
\* are exactly 1..200, on the padding path, the truncation path and the
\* path that does neither.
DenseIds ==
  OutputBuilt =>
    /\ \A i \in 1..Len(output.questions) : output.questions[i].id = i
    /\ {output.questions[i].id : i \in 1..Len(output.questions)} = 1..200

DenseIdsWitness ==
  /\ pc = "done"
  /\ nWorking = Len(Entries)
  /\ filler_pool = easy_fillers
  /\ output.questions[200].id = 200

\* C3 as stated: the filler appended while the list holds count records is
\* filler[(count - original_length) % len(filler)], the pool being cycled
\* from its first entry for every original_length.
FillingFromStart ==
  \A i \in (nWorking + 1)..Len(questions) :
    FromFiller(questions[i],
               filler_pool[((i - 1 - nWorking) % Len(filler_pool)) + 1])

\* C3 as amended: the filler appended while the list holds count records
\* is filler[count % len(filler)], so the first padded record is filler
\* entry original_length % len(filler).
FillingByCount ==
  \A i \in (nWorking + 1)..Len(questions) :
    /\ FromFiller(questions[i], filler_pool[((i - 1) % Len(filler_pool)) + 1])
    /\ i = nWorking + 1 =>
         FromFiller(questions[i], filler_pool[(nWorking % Len(filler_pool)) + 1])

FillingByCountWitness ==
  /\ pc = "pad"
  /\ Len(questions) = 200
  /\ nWorking = Len(Entries)
  /\ filler_pool = easy_fillers
  /\ questions[nWorking + 1].prompt = easy_fillers[3].text

\* C4: with more than 200 working records the emitted corpus is the first
\* 200 of them, in order, with their content and ids; the later ones are
\* absent and no filler was appended.
TruncationKeepsEarliest ==
  (OutputBuilt /\ nWorking > 200) =>
    /\ Len(output.questions) = 200
    /\ Len(questions) = nWorking
    /\ \A i \in 1..200 :
         /\ output.questions[i] = questions[i]
         /\ output.questions[i] =
              Question(Loops[CatalogEntry(i).loop], CatalogEntry(i).item, i)
    /\ \A j \in 201..nWorking :
         \A i \in 1..Len(output.questions) : output.questions[i].id # questions[j].id

TruncationWitness ==
  /\ pc = "done"
  /\ nWorking = 210
  /\ Len(questions) = 210
  /\ Len(file.questions) = 200

Complexities ==
  {"O(1)", "O(log n)", "O(n)", "O(n log n)", "O(n^2)", "O(n^3)", "O(2^n)", "O(n!)"}

\* C5: every emitted record, the filler records included, has its
\* correct_complexity among the eight labels, its difficulty among easy,
\* medium and hard, and its type among code and name.
ClosedSets ==
  OutputBuilt =>
    \A i \in 1..Len(output.questions) :
      /\ output.questions[i].correct_complexity \in Complexities
      /\ output.questions[i].difficulty \in {"easy", "medium", "hard"}
      /\ output.questions[i].type \in {"code", "name"}

ClosedSetsWitness ==
  /\ pc = "done"
  /\ Len(questions) > nWorking
  /\ \E i \in 1..nWorking : output.questions[i].difficulty = "hard"
  /\ \E i \in 1..nWorking :
       /\ Loops[CatalogEntry(i).loop].difficulty = "mod3"
       /\ output.questions[i].difficulty = "medium"

\* C6: every emitted record of type name has language None and every
\* emitted record of type code has a language that is not None, whether the
\* language was a literal of the loop, inferred from the snippet, taken
\* from the pool entry or taken from a filler entry.
LanguageConsistency ==
  OutputBuilt =>
    \A i \in 1..Len(output.questions) :
      /\ output.questions[i].type = "name" => output.questions[i].language = None
      /\ output.questions[i].type = "code" => output.questions[i].language # None

LanguageWitness ==
  /\ pc = "done"
  /\ Len(questions) > nWorking
  /\ \E i \in 1..nWorking :
       /\ Loops[CatalogEntry(i).loop].language = "infer"
       /\ output.questions[i].language = "python"
  /\ \E i \in 1..nWorking :
       /\ Loops[CatalogEntry(i).loop].language = "infer"
       /\ output.questions[i].language = "cpp"
  /\ \E i \in 1..nWorking : Loops[CatalogEntry(i).loop].language = "item"
  /\ \E i \in 1..nWorking : output.questions[i].type = "name"

IsEasy(q) ==
  q.difficulty = "easy"

IsMedium(q) ==
  q.difficulty = "medium"

IsHard(q) ==
  q.difficulty = "hard"

IsCode(q) ==
  q.type = "code"

IsName(q) ==
  q.type = "name"

\* C8: the printed counts are those of a scan of the emitted 200 records,
\* not of the working list, so easy + medium + hard = 200 and
\* code + name = 200, also when records were cut.
SummaryAccuracy ==
  pc = "done" =>
    /\ summary.total = Len(output.questions)
    /\ summary.easy = Len(SelectSeq(output.questions, IsEasy))
    /\ summary.medium = Len(SelectSeq(output.questions, IsMedium))
    /\ summary.hard = Len(SelectSeq(output.questions, IsHard))
    /\ summary.code = Len(SelectSeq(output.questions, IsCode))
    /\ summary.name = Len(SelectSeq(output.questions, IsName))
    /\ summary.easy + summary.medium + summary.hard = 200
    /\ summary.code + summary.name = 200

SummaryWitness ==
  /\ pc = "done"
  /\ nWorking > 200
  /\ Len(questions) > 200
  /\ summary.total = 200
  /\ summary.hard > 0

\* C9: with fewer than 200 working records and an empty filler pool the
\* run ends in an error raised by the padding loop: nothing is appended to
\* the working records, the only step the padding loop can take is the one
\* that raises, and no document is built or written.
EmptyFillerAborts ==
  /\ []((Len(filler_pool) = 0 /\ nWorking < 200) =>
          /\ pc \in {"expand", "pad", "error"}
          /\ Len(questions) = pos
          /\ pos <= nWorking
          /\ output.questions = <<>>
          /\ file = before)
  /\ [][(Len(filler_pool) = 0 /\ nWorking < 200 /\ pc = "pad") =>
          (pc' = "error" /\ questions' = questions)]_vars

EmptyFillerWitness ==
  /\ pc = "error"
  /\ Len(filler_pool) = 0
  /\ nWorking < 200
  /\ Len(questions) = nWorking

\* C10: when the write of the document fails, the file either holds the
\* complete new document or is as it was before the run.
NoPartialOutput ==
  pc = "error" =>
    \/ file = before
    \/ (file.complete /\ file.questions = output.questions)


\* q has a non-empty prompt, a non-empty explanation, and a complexity
\* label and a difficulty of the closed sets.
WellFormed(q) ==
  /\ q.prompt # ""
  /\ q.explanation # ""
  /\ q.correct_complexity \in Complexities
  /\ q.difficulty \in {"easy", "medium", "hard"}

\* C11: when a pool entry has an empty prompt, an empty explanation, a
\* complexity label or a difficulty outside the closed sets, the run stops
\* before anything is written: the file is never touched and no corpus
\* holding such a record is built.
CatalogValidated ==
  defect # NoDefect =>
    /\ file = before
    /\ \A i \in 1..Len(output.questions) : WellFormed(output.questions[i])

\* The difficulty rule of the loop that expanded the record at position i.
RuleAt(i) ==
  Loops[CatalogEntry(i).loop].difficulty

\* Positions i and i + 1 hold two consecutive records of one pool.
SamePool(i) ==
  CatalogEntry(i).loop = CatalogEntry(i + 1).loop

\* The working records expanded so far.
Expanded ==
  1..(IF Len(questions) < nWorking THEN Len(questions) ELSE nWorking)

\* C12 as stated: in the O(log n) and in the O(n^2) code pool the
\* difficulty is easy or medium by a modulus of the counter, and no two
\* consecutive records of either pool have the same difficulty.
ModulusAlternates ==
  \A i \in Expanded :
    RuleAt(i) \in {"mod2", "mod3"} =>
      /\ questions[i].difficulty \in {"easy", "medium"}
      /\ (i + 1 \in Expanded /\ SamePool(i)) =>
           questions[i].difficulty # questions[i + 1].difficulty

\* C12 as amended: in the O(log n) code pool a record is easy when the
\* counter is even and medium when it is odd, so consecutive records
\* alternate; in the O(n^2) code pool a record is easy when the counter is a
\* multiple of 3 and medium otherwise, so no two consecutive records are
\* both easy, while two consecutive records are both medium whenever
\* neither counter is a multiple of 3.
ModulusPattern ==
  \A i \in Expanded :
    /\ RuleAt(i) = "mod2" =>
         /\ questions[i].difficulty = (IF i % 2 = 0 THEN "easy" ELSE "medium")
         /\ (i + 1 \in Expanded /\ SamePool(i)) =>
              questions[i].difficulty # questions[i + 1].difficulty
    /\ RuleAt(i) = "mod3" =>
         /\ questions[i].difficulty = (IF i % 3 = 0 THEN "easy" ELSE "medium")
         /\ (i + 1 \in Expanded /\ SamePool(i)) =>
              /\ ~(questions[i].difficulty = "easy"
                     /\ questions[i + 1].difficulty = "easy")
              /\ (i % 3 = 1) =>
                   (questions[i].difficulty = "medium"
                      /\ questions[i + 1].difficulty = "medium")

ModulusPatternWitness ==
  /\ pc = "done"
  /\ nWorking = Len(Entries)
  /\ RuleAt(43) = "mod3"
  /\ SamePool(43)
  /\ output.questions[43].difficulty = "medium"
  /\ output.questions[44].difficulty = "medium"
  /\ RuleAt(11) = "mod2"
  /\ output.questions[11].difficulty = "medium"
  /\ output.questions[12].difficulty = "easy"

\* C13: after every append of the expansion loops and of the padding loop
\* the counter is len(questions) + 1 and every record of the list has its
\* position as id; so a record whose difficulty came from a modulus of the
\* counter carries, in the emitted corpus, the id that modulus was taken of.
CounterTracksLength ==
  /\ question_id = Len(questions) + 1
  /\ \A i \in 1..Len(questions) : questions[i].id = i
  /\ OutputBuilt =>
       \A i \in 1..Len(output.questions) :
         (i <= nWorking /\ RuleAt(i) \in {"mod2", "mod3"}) =>
           output.questions[i].difficulty =
             Difficulty(Loops[CatalogEntry(i).loop], CatalogEntry(i).item,
                        output.questions[i].id)

CounterWitness ==
  /\ pc = "pad"
  /\ nWorking > 46
  /\ Len(questions) > nWorking
  /\ Len(questions) < 200
  /\ question_id = Len(questions) + 1
  /\ questions[Len(questions)].id = Len(questions)

=============================================================================
